---- MODULE Spec2Model ----
(***************************************************************************)
(* Model of py_utils/housekeeper.py: the two cleanup operations of class   *)
(* Housekeeper (housekeep_by_age, housekeep_by_count) and the dispatcher   *)
(* cleanup_directory, run by callers over a small directory tree.          *)
(*                                                                         *)
(* The filesystem is a set of entries (regular files and subdirectories)   *)
(* under one existing directory.  Each invocation is a record holding the  *)
(* local variables of the Python function and a program counter; one       *)
(* action models one step of the function between two filesystem calls.    *)
(*                                                                         *)
(* py_utils/email_helper.py (setup_smtp, send_email, send_quick_email) is  *)
(* modelled by the record `mail`: one call, the connection it opens and    *)
(* the calls it makes on it.  py_utils/logger.py (setup_logger,            *)
(* get_logger) is modelled by the record `logging`: the handlers each      *)
(* named logger carries and the log directories that exist.                *)
(***************************************************************************)
EXTENDS Integers, Sequences, FiniteSets

\* ---------------------------------------------------------------- bounds
MaxFiles == 2       \* entries in the directory tree
MaxTime  == 1       \* modification times are 0..MaxTime; the clock starts at MaxTime
MaxTicks == 1       \* how far the clock may advance during a behaviour

MaxDays  == MaxTime        \* days_old is 0..MaxDays
MaxKeep  == MaxFiles       \* keep_count is 0..MaxKeep

Callers    == {"a", "b"}
Entries    == 1..MaxFiles
Times      == 0..MaxTime
DaysRange  == 0..MaxDays
KeepRange  == 0..MaxKeep
None       == "None"
Responses  == {"y", "Y", "n", "N", "", "no", "yes"}
DataDir    == "data"
Directories == {DataDir, "missing"}

VARIABLES
    directories,  \* the directory paths that exist
    present,      \* the entries that exist under DataDir
    attr,         \* attr[e]: kind ("file" | "dir") and st_mtime of entry e
    now,          \* the clock, datetime.now()
    inv,          \* inv[c]: the invocation caller c is running
    prev,         \* the last invocation that ended, as its caller saw it
    mail,         \* the call of setup_smtp or send_quick_email and its connection
    logging       \* the named loggers, their handlers and the log directories

hkvars == <<directories, present, attr, now, inv, prev>>
vars   == <<directories, present, attr, now, inv, prev, mail, logging>>

\* ---------------------------------------------------------------- helpers

\* The locals of an invocation that has not started.
Idle ==
    [pc |-> "idle", op |-> "none", via |-> "none", directory |-> None,
     days_old |-> None, keep_count |-> None, confirm |-> FALSE, args |-> <<>>,
     called_at |-> 0, cutoff_timestamp |-> 0, listing |-> <<>>, idx |-> 0,
     files |-> <<>>, files_to_delete |-> <<>>, deleted_count |-> 0,
     response |-> None, prompts |-> 0, stat_calls |-> 0,
     remove_calls |-> <<>>, removed |-> {}, result |-> None, error |-> None]

NoPrev == [op |-> "none"]

LoggerNames == {"app", "test_logger"}

\* logging.getLogger before any setup: no handler, level unset, and no log
\* directory on disk.
NoLogging ==
    [handlers |-> [n \in LoggerNames |-> <<>>],
     level    |-> [n \in LoggerNames |-> "NOTSET"],
     last     |-> [n \in LoggerNames |->
                     [via |-> "none", log_file |-> <<>>, removed |-> 0,
                      outcome |-> "none"]],
     dirs     |-> {}]

\* No call into email_helper has been made.
MailIdle ==
    [pc |-> "idle", via |-> "none", username |-> None, password |-> None,
     use_tls |-> FALSE, connected |-> FALSE, server |-> FALSE,
     login_calls |-> <<>>, sendmail_calls |-> 0, quit_calls |-> 0,
     pending |-> None, result |-> None, error |-> None]

\* The existence check left out: every path is taken to exist.
PathExistsUnchecked(d) == TRUE

\* os.path.exists(directory)
PathExists(d) == d \in directories

\* Path.is_file(): false for a missing path and for a directory.
IsFile(e) == e \in present /\ attr[e].kind = "file"

\* Path(directory).rglob('*'): every entry below the directory, files and
\* subdirectories, in directory order.
RECURSIVE ListFrom(_)
ListFrom(e) ==
    IF e > MaxFiles THEN <<>>
    ELSE IF e \in present THEN <<e>> \o ListFrom(e + 1)
    ELSE ListFrom(e + 1)

Rglob(d) == IF d = DataDir THEN ListFrom(1) ELSE <<>>

\* str.lower() on the operator's answer.
Lower(r) == CASE r = "Y" -> "y" [] r = "N" -> "n" [] OTHER -> r

\* The test turned round: only an explicit "n" cancels.
DeclinedOnlyOnN(r) == Lower(r) = "n"

\* The test of lines 46 and 96: response.lower() != 'y'
Declined(r) == Lower(r) # "y"

\* The comparison made inclusive.
OlderOrEqual(mtime, cutoff) == mtime <= cutoff

\* The test of line 32: st_mtime < cutoff_timestamp
OlderThan(mtime, cutoff) == mtime < cutoff

\* The comparison made strict.
NothingToTrimStrict(files, keep_count) == Len(files) < keep_count

\* The test of line 83: len(files) <= keep_count
NothingToTrim(files, keep_count) == Len(files) <= keep_count

\* list.sort(key=lambda x: x[1], reverse=True): stable, newest first.
InsertDesc(s, x) ==
    LET n == Cardinality({i \in 1..Len(s) : s[i][2] >= x[2]})
    IN  SubSeq(s, 1, n) \o <<x>> \o SubSeq(s, n + 1, Len(s))

\* The sort left out: the files stay in directory order.
Unsorted(s) == s

RECURSIVE SortNewestFirst(_)
SortNewestFirst(s) ==
    IF s = <<>> THEN <<>>
    ELSE InsertDesc(SortNewestFirst(SubSeq(s, 1, Len(s) - 1)), s[Len(s)])

\* The slice taken from the wrong end: s[:k].
SliceUpTo(s, k) == SubSeq(s, 1, IF k > Len(s) THEN Len(s) ELSE k)

\* Python's s[k:], k an integer of either sign.
SliceFrom(s, k) ==
    LET start == IF k >= 0 THEN (IF k > Len(s) THEN Len(s) ELSE k)
                 ELSE (IF Len(s) + k < 0 THEN 0 ELSE Len(s) + k)
    IN  SubSeq(s, start + 1, Len(s))

\* files[keep_count:] of line 91
BeyondKeep(files, keep_count) == SliceFrom(SortNewestFirst(files), keep_count)

\* A remove that reports success on a path that is already gone.
RemoveIgnoresMissing(e, refused) == ~refused

\* os.remove(path) can succeed only on an existing regular file; on one it
\* may still fail (permissions, a busy file), which `refused` stands for.
CanRemove(e, refused) == e \in present /\ attr[e].kind = "file" /\ ~refused

Range(s) == {s[i] : i \in 1..Len(s)}
Paths(s) == [i \in 1..Len(s) |-> s[i][1]]

Set(c, r) == inv' = [inv EXCEPT ![c] = r]

\* prev is kept only while the invocation that follows repeats it: an age
\* run over the same directory with the same threshold.
Repeats(op, d, days) ==
    prev' = IF /\ op = "age" /\ prev.op = "age"
               /\ prev.directory = d /\ prev.days_old = days
            THEN prev ELSE NoPrev
FsUnchanged == UNCHANGED <<directories, present, attr, now>>

\* ---------------------------------------------------------------- Init

AttrValues == [kind : {"file", "dir"}, st_mtime : Times]

\* The modification time of a subdirectory is never read.
AttrOk(a) == a.kind = "dir" => a.st_mtime = 0

Init ==
    /\ directories = {DataDir}
    /\ \E n \in 0..MaxFiles : present = 1..n
    /\ attr \in [Entries -> {a \in AttrValues : AttrOk(a)}]
    /\ \A e \in Entries \ present : attr[e] = [kind |-> "file", st_mtime |-> 0]
    /\ now = MaxTime
    /\ inv = [c \in Callers |-> Idle]
    /\ prev = NoPrev
    /\ mail = MailIdle
    /\ logging = NoLogging

\* ---------------------------------------------------------------- housekeep_by_age

\* Lines 22-31: the existence check, the cutoff, the start of the walk.
StartAge(r, d, days, c, via) ==
    IF ~PathExists(d)
    THEN [r EXCEPT !.pc = "raised", !.op = "age", !.via = via, !.directory = d,
                   !.days_old = days, !.confirm = c, !.error = "FileNotFoundError"]
    ELSE [r EXCEPT !.pc = "age_is_file", !.op = "age", !.via = via, !.directory = d,
                   !.days_old = days, !.confirm = c,
                   !.called_at = now, !.cutoff_timestamp = now - days,
                   !.listing = Rglob(d), !.idx = 1]

HousekeepByAge(c, d, days, confirm) ==
    /\ inv[c].pc = "idle"
    /\ Set(c, StartAge(inv[c], d, days, confirm, "direct"))
    /\ Repeats("age", d, days)
    /\ FsUnchanged

\* Line 32, left operand: file_path.is_file()
AgeIsFile(c) ==
    LET r == inv[c] IN
    /\ r.pc = "age_is_file" /\ r.idx <= Len(r.listing)
    /\ Set(c, IF IsFile(r.listing[r.idx])
              THEN [r EXCEPT !.pc = "age_stat", !.stat_calls = @ + 1]
              ELSE [r EXCEPT !.idx = @ + 1, !.stat_calls = @ + 1])
    /\ FsUnchanged /\ UNCHANGED prev

\* Lines 32-33, right operand: file_path.stat().st_mtime < cutoff_timestamp.
\* stat() of a path that no longer exists raises, outside any try block.
AgeStat(c) ==
    LET r == inv[c]
        e == r.listing[r.idx] IN
    /\ r.pc = "age_stat"
    /\ Set(c, IF e \notin present
              THEN [r EXCEPT !.pc = "raised", !.error = "FileNotFoundError",
                             !.stat_calls = @ + 1]
              ELSE IF OlderThan(attr[e].st_mtime, r.cutoff_timestamp)
              THEN [r EXCEPT !.pc = "age_is_file", !.idx = @ + 1, !.stat_calls = @ + 1,
                             !.files_to_delete = Append(@, e)]
              ELSE [r EXCEPT !.pc = "age_is_file", !.idx = @ + 1, !.stat_calls = @ + 1])
    /\ FsUnchanged /\ UNCHANGED prev

\* Lines 35-48 up to the call of input(): nothing to do, ask, or go on.
AgeSelected(c) ==
    LET r == inv[c] IN
    /\ r.pc = "age_is_file" /\ r.idx > Len(r.listing)
    /\ Set(c, IF r.files_to_delete = <<>>
              THEN [r EXCEPT !.pc = "returned", !.result = 0]
              ELSE IF r.confirm
              THEN [r EXCEPT !.pc = "age_input", !.prompts = @ + 1]
              ELSE [r EXCEPT !.pc = "age_remove", !.idx = 1, !.deleted_count = 0])
    /\ FsUnchanged /\ UNCHANGED prev

\* Lines 45-48: input() returns the operator's answer.
AgeInput(c, answer) ==
    LET r == inv[c] IN
    /\ r.pc = "age_input"
    /\ Set(c, IF Declined(answer)
              THEN [r EXCEPT !.pc = "returned", !.result = 0, !.response = answer]
              ELSE [r EXCEPT !.pc = "age_remove", !.idx = 1, !.deleted_count = 0,
                             !.response = answer])
    /\ FsUnchanged /\ UNCHANGED prev

\* A remove that reports success and leaves the file in place.
AgeRemoveLeavesFile(c, refused) ==
    LET r == inv[c]
        e == r.files_to_delete[r.idx] IN
    /\ r.pc = "age_remove" /\ r.idx <= Len(r.files_to_delete)
    /\ IF CanRemove(e, refused)
       THEN Set(c, [r EXCEPT !.idx = @ + 1, !.remove_calls = Append(@, e),
                             !.removed = @ \cup {e}, !.deleted_count = @ + 1])
       ELSE Set(c, [r EXCEPT !.idx = @ + 1, !.remove_calls = Append(@, e)])
    /\ UNCHANGED <<directories, present, attr, now, prev>>

\* The loop without its try block's recovery: the first failure ends it.
AgeRemoveStopsOnFailure(c, refused) ==
    LET r == inv[c]
        e == r.files_to_delete[r.idx] IN
    /\ r.pc = "age_remove" /\ r.idx <= Len(r.files_to_delete)
    /\ IF CanRemove(e, refused)
       THEN /\ present' = present \ {e}
            /\ Set(c, [r EXCEPT !.idx = @ + 1, !.remove_calls = Append(@, e),
                                !.removed = @ \cup {e}, !.deleted_count = @ + 1])
       ELSE /\ present' = present
            /\ Set(c, [r EXCEPT !.idx = Len(r.files_to_delete) + 1,
                                !.remove_calls = Append(@, e)])
    /\ UNCHANGED <<directories, attr, now, prev>>

\* Lines 51-56: one turn of the deletion loop.
AgeRemove(c, refused) ==
    LET r == inv[c]
        e == r.files_to_delete[r.idx] IN
    /\ r.pc = "age_remove" /\ r.idx <= Len(r.files_to_delete)
    /\ IF CanRemove(e, refused)
       THEN /\ present' = present \ {e}
            /\ Set(c, [r EXCEPT !.idx = @ + 1, !.remove_calls = Append(@, e),
                                !.removed = @ \cup {e}, !.deleted_count = @ + 1])
       ELSE /\ present' = present
            /\ Set(c, [r EXCEPT !.idx = @ + 1, !.remove_calls = Append(@, e)])
    /\ UNCHANGED <<directories, attr, now, prev>>

\* Line 58: return deleted_count
AgeReturn(c) ==
    LET r == inv[c] IN
    /\ r.pc = "age_remove" /\ r.idx > Len(r.files_to_delete)
    /\ Set(c, [r EXCEPT !.pc = "returned", !.result = r.deleted_count])
    /\ FsUnchanged /\ UNCHANGED prev

\* ---------------------------------------------------------------- housekeep_by_count

\* Lines 74-79: the existence check and the start of the walk.
StartCount(r, d, keep, c, via) ==
    IF ~PathExists(d)
    THEN [r EXCEPT !.pc = "raised", !.op = "count", !.via = via, !.directory = d,
                   !.keep_count = keep, !.confirm = c, !.error = "FileNotFoundError"]
    ELSE [r EXCEPT !.pc = "count_is_file", !.op = "count", !.via = via, !.directory = d,
                   !.keep_count = keep, !.confirm = c,
                   !.listing = Rglob(d), !.idx = 1]

HousekeepByCount(c, d, keep, confirm) ==
    /\ inv[c].pc = "idle"
    /\ Set(c, StartCount(inv[c], d, keep, confirm, "direct"))
    /\ Repeats("count", d, keep)
    /\ FsUnchanged

\* Line 80: file_path.is_file()
CountIsFile(c) ==
    LET r == inv[c] IN
    /\ r.pc = "count_is_file" /\ r.idx <= Len(r.listing)
    /\ Set(c, IF IsFile(r.listing[r.idx])
              THEN [r EXCEPT !.pc = "count_stat", !.stat_calls = @ + 1]
              ELSE [r EXCEPT !.idx = @ + 1, !.stat_calls = @ + 1])
    /\ FsUnchanged /\ UNCHANGED prev

\* Line 81: files.append((file_path, file_path.stat().st_mtime)).
\* stat() of a path that no longer exists raises, outside any try block.
CountStat(c) ==
    LET r == inv[c]
        e == r.listing[r.idx] IN
    /\ r.pc = "count_stat"
    /\ Set(c, IF e \notin present
              THEN [r EXCEPT !.pc = "raised", !.error = "FileNotFoundError",
                             !.stat_calls = @ + 1]
              ELSE [r EXCEPT !.pc = "count_is_file", !.idx = @ + 1, !.stat_calls = @ + 1,
                             !.files = Append(@, <<e, attr[e].st_mtime>>)])
    /\ FsUnchanged /\ UNCHANGED prev

\* Lines 83-98 up to the call of input(): nothing to do, or sort and slice,
\* then ask or go on.
CountSelected(c) ==
    LET r == inv[c] IN
    /\ r.pc = "count_is_file" /\ r.idx > Len(r.listing)
    /\ Set(c, IF NothingToTrim(r.files, r.keep_count)
              THEN [r EXCEPT !.pc = "returned", !.result = 0]
              ELSE IF r.confirm
              THEN [r EXCEPT !.pc = "count_input", !.prompts = @ + 1,
                             !.files = SortNewestFirst(@),
                             !.files_to_delete = Paths(BeyondKeep(r.files, r.keep_count))]
              ELSE [r EXCEPT !.pc = "count_remove", !.idx = 1, !.deleted_count = 0,
                             !.files = SortNewestFirst(@),
                             !.files_to_delete = Paths(BeyondKeep(r.files, r.keep_count))])
    /\ FsUnchanged /\ UNCHANGED prev

\* Lines 95-98: input() returns the operator's answer.
CountInput(c, answer) ==
    LET r == inv[c] IN
    /\ r.pc = "count_input"
    /\ Set(c, IF Declined(answer)
              THEN [r EXCEPT !.pc = "returned", !.result = 0, !.response = answer]
              ELSE [r EXCEPT !.pc = "count_remove", !.idx = 1, !.deleted_count = 0,
                             !.response = answer])
    /\ FsUnchanged /\ UNCHANGED prev

\* Lines 101-106: one turn of the deletion loop.
CountRemove(c, refused) ==
    LET r == inv[c]
        e == r.files_to_delete[r.idx] IN
    /\ r.pc = "count_remove" /\ r.idx <= Len(r.files_to_delete)
    /\ IF CanRemove(e, refused)
       THEN /\ present' = present \ {e}
            /\ Set(c, [r EXCEPT !.idx = @ + 1, !.remove_calls = Append(@, e),
                                !.removed = @ \cup {e}, !.deleted_count = @ + 1])
       ELSE /\ present' = present
            /\ Set(c, [r EXCEPT !.idx = @ + 1, !.remove_calls = Append(@, e)])
    /\ UNCHANGED <<directories, attr, now, prev>>

\* Line 108: return deleted_count
CountReturn(c) ==
    LET r == inv[c] IN
    /\ r.pc = "count_remove" /\ r.idx > Len(r.files_to_delete)
    /\ Set(c, [r EXCEPT !.pc = "returned", !.result = r.deleted_count])
    /\ FsUnchanged /\ UNCHANGED prev

\* ---------------------------------------------------------------- cleanup_directory

\* The default switched off.
DefaultConfirmOff == FALSE

\* The default of the parameter `confirm` (lines 10 and 61), which the
\* dispatcher leaves unset.
DefaultConfirm == TRUE

\* An Optional[int] argument: <<>> is Python's None, <<v>> the integer v.
Absent       == <<>>
Optional(S)  == {Absent} \cup {<<v>> : v \in S}
\* A truthiness test, `if days_old:`, which takes 0 for None.
IsTruthy(x)  == x # Absent /\ x[1] # 0
IsNotNone(x) == x # Absent

\* Line 111: the dispatcher is entered with its two optional arguments,
\* which it holds until it has delegated.
CleanupDirectory(c, d, days_old, keep_count) ==
    /\ inv[c].pc = "idle"
    /\ Set(c, [inv[c] EXCEPT !.pc = "cleanup_directory", !.via = "cleanup_directory",
                             !.directory = d, !.args = <<days_old, keep_count>>])
    /\ Repeats("none", d, 0)
    /\ FsUnchanged

\* Lines 123-129: the choice of the policy and the delegated call's
\* first step, or the usage hint.
Delegated(r) ==
    LET days_old   == r.args[1]
        keep_count == r.args[2]
        q          == [r EXCEPT !.args = <<>>] IN
    IF IsNotNone(days_old)
    THEN StartAge(q, r.directory, days_old[1], DefaultConfirm, "cleanup_directory")
    ELSE IF IsNotNone(keep_count)
    THEN StartCount(q, r.directory, keep_count[1], DefaultConfirm, "cleanup_directory")
    ELSE [q EXCEPT !.pc = "returned", !.result = 0]

Dispatch(c) ==
    /\ inv[c].pc = "cleanup_directory"
    /\ Set(c, Delegated(inv[c]))
    /\ FsUnchanged /\ UNCHANGED prev

\* ---------------------------------------------------------------- callers

\* What a caller can tell of an age run that returned: its threshold and
\* cutoff, the files it selected, those it removed, and what it left behind.
Summary(r) ==
    IF r.op = "age" /\ r.pc = "returned"
    THEN [op |-> "age", days_old |-> r.days_old, directory |-> r.directory,
          cutoff_timestamp |-> r.cutoff_timestamp,
          eligible |-> Range(r.files_to_delete), removed |-> r.removed,
          survivors |-> present]
    ELSE NoPrev

\* The caller receives the result or the exception; the invocation is over.
Finish(c) ==
    /\ inv[c].pc \in {"returned", "raised"}
    /\ inv' = [inv EXCEPT ![c] = Idle]
    /\ prev' = Summary(inv[c])
    /\ FsUnchanged

\* The clock advances.
Tick ==
    /\ now < MaxTime + MaxTicks
    /\ now' = now + 1
    /\ UNCHANGED <<directories, present, attr, inv, prev>>

\* The steps inside an invocation that has begun: the walk and the
\* selection, the operator's answer, the deletion loop and the return.
Select(c) ==
    \/ AgeIsFile(c)
    \/ AgeStat(c)
    \/ AgeSelected(c)
    \/ CountIsFile(c)
    \/ CountStat(c)
    \/ CountSelected(c)

Answer(c) ==
    \/ \E answer \in Responses : AgeInput(c, answer)
    \/ \E answer \in Responses : CountInput(c, answer)

Delete(c, refusals) ==
    \/ \E refused \in refusals : AgeRemove(c, refused)
    \/ AgeReturn(c)
    \/ \E refused \in refusals : CountRemove(c, refused)
    \/ CountReturn(c)

\* A caller begins any of the three operations with any arguments.
Begin(c) ==
    \/ \E d \in Directories, days \in DaysRange, confirm \in BOOLEAN :
          HousekeepByAge(c, d, days, confirm)
    \/ \E d \in Directories, keep \in KeepRange, confirm \in BOOLEAN :
          HousekeepByCount(c, d, keep, confirm)
    \/ \E d \in Directories, days \in Optional(DaysRange), keep \in Optional(KeepRange) :
          CleanupDirectory(c, d, days, keep)
    \/ Dispatch(c)

\* One caller, one invocation after the other: every invocation ends
\* before the next begins.
Next ==
    /\ \/ Tick
       \/ Begin("a")
       \/ Select("a")
       \/ Answer("a")
       \/ Delete("a", BOOLEAN)
       \/ Finish("a")
    /\ UNCHANGED <<mail, logging>>

Spec == Init /\ [][Next]_vars

\* ---------------------------------------------------------------- concurrent callers

\* Two callers, each running one unattended cleanup of the existing
\* directory, their steps interleaved; the directory holds regular files
\* only, and a remove fails only when the file is already gone.
InitConc ==
    /\ Init
    /\ present = Entries
    /\ \A e \in Entries : attr[e].kind = "file"

BeginConc(c) ==
    \/ \E days \in DaysRange : HousekeepByAge(c, DataDir, days, FALSE)
    \/ \E keep \in KeepRange : HousekeepByCount(c, DataDir, keep, FALSE)

NextConc ==
    /\ \E c \in Callers : BeginConc(c) \/ Select(c) \/ Delete(c, {FALSE})
    /\ UNCHANGED <<mail, logging>>

SpecConc == InitConc /\ [][NextConc]_vars

\* ---------------------------------------------------------------- email_helper

Usernames == {None, "", "user@example.com"}
Passwords == {None, "", "password123"}

SetupError == "Failed to setup SMTP connection"
SendError  == "Failed to send email"
QuitError  == "SMTPServerDisconnected"

\* Python's truth value of an Optional[str]: None and "" are false.
Truthy(x) == x # None /\ x # ""

\* Line 11: EmailHelper.setup_smtp called on its own.
SetupSmtp(username, password, use_tls) ==
    /\ mail.pc = "idle"
    /\ mail' = [mail EXCEPT !.pc = "smtp_connect", !.via = "setup_smtp",
                            !.username = username, !.password = password,
                            !.use_tls = use_tls]

\* Lines 116-118: send_quick_email sets server = None and calls setup_smtp.
SendQuickEmail(username, password, use_tls) ==
    /\ mail.pc = "idle"
    /\ mail' = [mail EXCEPT !.pc = "smtp_connect", !.via = "send_quick_email",
                            !.username = username, !.password = password,
                            !.use_tls = use_tls, !.server = FALSE]

\* Lines 39-40 and 121-123: setup_smtp raises its wrapped exception; inside
\* send_quick_email it passes through the finally block.
SetupFailed(m) ==
    IF m.via = "setup_smtp"
    THEN [m EXCEPT !.pc = "raised", !.error = SetupError]
    ELSE [m EXCEPT !.pc = "finally", !.pending = SetupError]

\* Lines 32-35: the connection is opened, SMTP_SSL under use_tls and SMTP
\* otherwise; only the SMTP branch goes on to the login test.
SmtpConnect(ok) ==
    /\ mail.pc = "smtp_connect"
    /\ mail' = IF ~ok THEN SetupFailed(mail)
               ELSE IF mail.use_tls
               THEN [mail EXCEPT !.pc = "smtp_return", !.connected = TRUE]
               ELSE [mail EXCEPT !.pc = "smtp_login", !.connected = TRUE]

\* Lines 36-37: if username and password: server.login(username, password)
SmtpLogin(ok) ==
    /\ mail.pc = "smtp_login"
    /\ mail' = IF Truthy(mail.username) /\ Truthy(mail.password)
               THEN LET m == [mail EXCEPT !.login_calls =
                                Append(@, <<mail.username, mail.password>>)]
                    IN  IF ok THEN [m EXCEPT !.pc = "smtp_return"]
                        ELSE SetupFailed(m)
               ELSE [mail EXCEPT !.pc = "smtp_return"]

\* Line 38: return server; in send_quick_email line 118 binds it.
SmtpReturn ==
    /\ mail.pc = "smtp_return"
    /\ mail' = IF mail.via = "setup_smtp"
               THEN [mail EXCEPT !.pc = "returned", !.result = "server"]
               ELSE [mail EXCEPT !.pc = "send_email", !.server = TRUE]

\* Lines 119-120 with 65-83: send_email calls sendmail and returns True, or
\* raises its wrapped exception; either way the finally block is next.
SendEmail(ok) ==
    /\ mail.pc = "send_email"
    /\ mail' = IF ok
               THEN [mail EXCEPT !.pc = "finally", !.sendmail_calls = @ + 1,
                                 !.result = TRUE]
               ELSE [mail EXCEPT !.pc = "finally", !.sendmail_calls = @ + 1,
                                 !.pending = SendError]

\* Lines 121-123: if server: server.quit().  An exception raised by quit
\* leaves the finally block in place of the pending one or of the return.
Finally(ok) ==
    /\ mail.pc = "finally"
    /\ mail' = IF mail.server /\ ~ok
               THEN [mail EXCEPT !.pc = "raised", !.quit_calls = @ + 1,
                                 !.connected = FALSE, !.error = QuitError]
               ELSE LET m == IF mail.server
                             THEN [mail EXCEPT !.quit_calls = @ + 1,
                                               !.connected = FALSE]
                             ELSE mail
                    IN  IF m.pending # None
                        THEN [m EXCEPT !.pc = "raised", !.error = m.pending]
                        ELSE [m EXCEPT !.pc = "returned"]

\* One call into email_helper; the directory is left alone.
InitMail ==
    /\ Init
    /\ present = {}
    /\ \A e \in Entries : attr[e] = [kind |-> "file", st_mtime |-> 0]

NextMail ==
    /\ \/ \E u \in Usernames, p \in Passwords, tls \in BOOLEAN : SetupSmtp(u, p, tls)
       \/ \E u \in Usernames, p \in Passwords, tls \in BOOLEAN : SendQuickEmail(u, p, tls)
       \/ \E ok \in BOOLEAN : SmtpConnect(ok)
       \/ \E ok \in BOOLEAN : SmtpLogin(ok)
       \/ SmtpReturn
       \/ \E ok \in BOOLEAN : SendEmail(ok)
       \/ \E ok \in BOOLEAN : Finally(ok)
    /\ UNCHANGED <<hkvars, logging>>

SpecMail == InitMail /\ [][NextMail]_vars

\* ---------------------------------------------------------------- logger

\* A path is the sequence of its components; "" is the empty sequence.
LogPaths == {<<>>, <<"app.log">>, <<"logs", "app.log">>}
Levels   == {"INFO", "DEBUG"}

\* Lines 57-71: get_default_log_file joins base_dir, "logs" and a
\* timestamped file name.
DefaultLogFile == <<"logs", "app_timestamp.log">>

\* os.path.dirname: the path without its last component.
Dirname(path) == IF path = <<>> THEN <<>> ELSE SubSeq(path, 1, Len(path) - 1)

\* Line 44: if log_file: -- None and "" are false.
HasLogFile(log_file) == log_file # Absent /\ log_file[1] # <<>>

\* The handlers a logger carried when a call began are those of earlier calls.
Earlier(handlers) ==
    [i \in 1..Len(handlers) |-> [handlers[i] EXCEPT !.of = "earlier"]]

\* The removal loop left out: the handlers stay on the logger.
KeepHandlers(handlers) == handlers

\* Lines 32-33: for handler in logger.handlers[:]: logger.removeHandler(handler)
RemoveHandlers(handlers) == <<>>

ConsoleHandler    == [kind |-> "console", file |-> <<>>, of |-> "latest"]
FileHandler(path) == [kind |-> "file", file |-> path, of |-> "latest"]

\* Lines 28-54: Logger.setup_logger.  os.makedirs (line 48) and
\* logging.FileHandler (line 50) may raise; the console handler is then
\* already on the logger.
SetupLogger(via, name, level, log_file, outcome) ==
    LET old      == logging.handlers[name]
        console  == Append(RemoveHandlers(Earlier(old)), ConsoleHandler)
        log_dir  == Dirname(log_file[1])
        need_dir == log_dir # <<>> /\ log_dir \notin logging.dirs
        made     == IF need_dir THEN logging.dirs \cup {log_dir} ELSE logging.dirs
        call(o)  == [via |-> via, log_file |-> log_file, removed |-> Len(old),
                     outcome |-> o]
        base     == [logging EXCEPT !.level[name] = level]
    IN  logging' =
          IF ~HasLogFile(log_file)
          THEN [base EXCEPT !.handlers[name] = console,
                            !.last[name] = call("returned")]
          ELSE IF need_dir /\ outcome = "makedirs failed"
          THEN [base EXCEPT !.handlers[name] = console,
                            !.last[name] = call("raised")]
          ELSE IF outcome = "open failed"
          THEN [base EXCEPT !.handlers[name] = console, !.dirs = made,
                            !.last[name] = call("raised")]
          ELSE [base EXCEPT !.handlers[name] =
                                Append(console, FileHandler(log_file[1])),
                            !.dirs = made,
                            !.last[name] = call("returned")]

Outcomes == {"ok", "makedirs failed", "open failed"}

\* Lines 74-88: get_logger falls back to the default log file and calls
\* setup_logger with the default level.
GetLogger(name, log_file, outcome) ==
    SetupLogger("get_logger", name, "INFO",
                IF log_file = Absent THEN <<DefaultLogFile>> ELSE log_file,
                outcome)

InitLogger ==
    /\ Init
    /\ present = {}
    /\ \A e \in Entries : attr[e] = [kind |-> "file", st_mtime |-> 0]

NextLogger ==
    /\ \/ \E n \in LoggerNames, l \in Levels, f \in Optional(LogPaths),
             o \in Outcomes : SetupLogger("setup_logger", n, l, f, o)
       \/ \E n \in LoggerNames, f \in Optional(LogPaths), o \in Outcomes :
             GetLogger(n, f, o)
    /\ UNCHANGED <<hkvars, mail>>

SpecLogger == InitLogger /\ [][NextLogger]_vars

\* ---------------------------------------------------------------- properties

\* The regular files the walk of invocation r met.
FilesListed(r) == {e \in Range(r.listing) : attr[e].kind = "file"}

\* The listed files strictly older than the cutoff of age run r, the cutoff
\* taken from the clock at the call.
StrictlyOlder(r) ==
    {e \in FilesListed(r) : attr[e].st_mtime < r.called_at - r.days_old}

Policy(r)    == r.op \in {"age", "count"}
Walking(r)   == r.pc \in {"age_is_file", "age_stat", "count_is_file", "count_stat"}
Removing(r)  == r.pc \in {"age_remove", "count_remove"}
Asking(r)    == r.pc \in {"age_input", "count_input"}
Selected(r)  == Asking(r) \/ Removing(r) \/ r.pc = "returned"
Affirmative  == {"y", "Y"}
\* Every remove attempted so far succeeded.
NoFailure(r) == Range(r.remove_calls) \subseteq r.removed
Untouched(r) == r.remove_calls = <<>> /\ r.removed = {}
DistinctTimes(S) ==
    \A x \in S, y \in S : x # y => attr[x].st_mtime # attr[y].st_mtime

\* C1: on a directory that does not exist both operations raise
\* FileNotFoundError at once: nothing is listed or stat-ed, no prompt is
\* issued and no remove is attempted, whatever the threshold, keep count
\* and confirm flag.
C1_MissingDirectoryFails ==
    \A c \in Callers :
        LET r == inv[c] IN
        (Policy(r) /\ r.directory \notin directories) =>
            /\ r.pc = "raised" /\ r.error = "FileNotFoundError"
            /\ r.listing = <<>> /\ r.stat_calls = 0 /\ r.prompts = 0
            /\ Untouched(r)

C1_Witness ==
    \E c \in Callers :
        /\ inv[c].op = "count" /\ inv[c].directory = "missing"
        /\ inv[c].pc = "raised" /\ ~inv[c].confirm /\ inv[c].keep_count = 0
        /\ present # {}

\* C2: a count run with 0 <= k < N, confirmation off and every remove
\* succeeding returns N-k, retains exactly k files, and no retained file is
\* older than a removed one; with distinct modification times the removed
\* files are exactly the N-k oldest and the retained exactly the k newest.
C2_CountKeepsNewest ==
    \A c \in Callers :
        LET r    == inv[c]
            all  == FilesListed(r)
            N    == Cardinality(all)
            kept == all \ r.removed IN
        (/\ r.op = "count" /\ r.pc = "returned" /\ ~r.confirm
         /\ r.keep_count >= 0 /\ r.keep_count < N /\ NoFailure(r)) =>
            /\ r.result = N - r.keep_count
            /\ Cardinality(r.removed) = N - r.keep_count
            /\ Cardinality(kept) = r.keep_count
            /\ kept \subseteq present /\ r.removed \cap present = {}
            /\ \A x \in kept, y \in r.removed : attr[x].st_mtime >= attr[y].st_mtime
            /\ DistinctTimes(all) =>
                  /\ r.removed = {f \in all :
                        Cardinality({g \in all : attr[g].st_mtime < attr[f].st_mtime})
                            < N - r.keep_count}
                  /\ kept = {f \in all :
                        Cardinality({g \in all : attr[g].st_mtime > attr[f].st_mtime})
                            < r.keep_count}

C2_Witness ==
    \E c \in Callers :
        LET r == inv[c] IN
        /\ r.op = "count" /\ r.pc = "returned" /\ ~r.confirm
        /\ r.keep_count = 1 /\ Cardinality(FilesListed(r)) = 2
        /\ DistinctTimes(FilesListed(r)) /\ r.result = 1
        /\ attr[1].st_mtime < attr[2].st_mtime
        /\ present = {2}

\* C3: an age run selects exactly the listed regular files whose
\* modification time is strictly older than the cutoff, the clock at the call
\* minus the threshold, fixed for the whole invocation; a file as new as the
\* cutoff or newer is never removed; with confirmation off and every remove
\* succeeding the result is the number of strictly older files.
C3_AgeSelectsStrictlyOlder ==
    \A c \in Callers :
        LET r     == inv[c]
            older == StrictlyOlder(r) IN
        (r.op = "age" /\ r.directory \in directories) =>
            /\ r.cutoff_timestamp = r.called_at - r.days_old
            /\ Range(r.listing) = present \cup r.removed
            /\ Range(r.remove_calls) \subseteq older
            /\ r.removed \subseteq older
            /\ Selected(r) =>
                  /\ Range(r.files_to_delete) = older
                  /\ Len(r.files_to_delete) = Cardinality(older)
            /\ (r.pc = "returned" /\ ~r.confirm /\ NoFailure(r)) =>
                  /\ r.result = Cardinality(older)
                  /\ r.removed = older
            /\ (r.pc = "returned" /\ older = {}) =>
                  (r.result = 0 /\ Untouched(r))

C3_Witness ==
    \E c \in Callers :
        LET r == inv[c] IN
        /\ r.op = "age" /\ r.pc = "returned" /\ ~r.confirm /\ r.result = 1
        /\ now > r.called_at
        /\ \E e \in present : /\ attr[e].kind = "file"
                               /\ attr[e].st_mtime = r.cutoff_timestamp

\* C4: with confirm on, no remove is attempted before the operator has
\* answered, and after any answer other than "y" or "Y" (such as "n", "",
\* "no") the operation returns 0 with no remove attempted and every file
\* still in place; removes follow an affirmative answer only.
C4_DeclineDeletesNothing ==
    \A c \in Callers :
        LET r == inv[c] IN
        (Policy(r) /\ r.confirm /\ r.response \notin Affirmative) =>
            /\ Untouched(r) /\ ~Removing(r)
            /\ Range(r.listing) \subseteq present
            /\ r.response # None =>
                  (r.pc = "returned" /\ r.result = 0 /\ r.prompts = 1)

C4_Witness ==
    \E c \in Callers :
        LET r == inv[c] IN
        /\ r.op = "age" /\ r.confirm /\ r.response = ""
        /\ r.pc = "returned" /\ Len(r.files_to_delete) = 2

\* C5: in the deletion phase every eligible file gets exactly one remove
\* attempt, in order, whether or not earlier attempts failed; no failure is
\* raised to the caller; the result is the number of attempts that succeeded.
C5_BestEffortDeletion ==
    \A c \in Callers :
        LET r == inv[c] IN
        Policy(r) =>
            /\ Removing(r) =>
                  /\ r.remove_calls = SubSeq(r.files_to_delete, 1, r.idx - 1)
                  /\ r.deleted_count = Cardinality(r.removed)
            /\ (/\ r.pc = "returned" /\ r.files_to_delete # <<>>
                /\ (r.confirm => r.response \in Affirmative)) =>
                  /\ r.remove_calls = r.files_to_delete
                  /\ r.removed = {e \in Range(r.remove_calls) : e \notin present}
                  /\ r.result = Cardinality(r.removed)
            /\ r.pc = "raised" => Untouched(r)
            /\ r.remove_calls # <<>> => r.error = None

C5_Witness ==
    \E c \in Callers :
        LET r == inv[c] IN
        /\ r.op = "age" /\ r.pc = "returned" /\ Len(r.files_to_delete) = 2
        /\ r.result = 1
        /\ r.files_to_delete[1] \in present
        /\ r.files_to_delete[2] \notin present

\* C6: when no listed file is strictly older than the cutoff (age), or
\* the number of listed files is at most keep_count (count), the operation
\* returns 0 with no prompt and no remove attempt, whatever the confirm
\* flag; no prompt is issued while the walk is still running.
C6_NothingToDo ==
    \A c \in Callers :
        LET r == inv[c] IN
        (Policy(r) /\ r.directory \in directories) =>
            /\ Walking(r) => (r.prompts = 0 /\ Untouched(r))
            /\ (/\ Selected(r)
                /\ \/ r.op = "age" /\ StrictlyOlder(r) = {}
                   \/ r.op = "count" /\ Cardinality(FilesListed(r)) <= r.keep_count) =>
                  /\ r.pc = "returned" /\ r.result = 0
                  /\ r.prompts = 0 /\ r.response = None /\ Untouched(r)

C6_Witness ==
    \E c \in Callers :
        LET r == inv[c] IN
        /\ r.op = "count" /\ r.confirm /\ r.pc = "returned"
        /\ Cardinality(FilesListed(r)) = 2 /\ r.keep_count = 2
        /\ r.result = 0 /\ r.prompts = 0

Dispatched(r) == r.via = "cleanup_directory"

\* Something is eligible for the policy of r, read off the directory.
SomethingToDo(r) ==
    \/ r.op = "age" /\ StrictlyOlder(r) # {}
    \/ r.op = "count" /\ Cardinality(FilesListed(r)) > r.keep_count

\* C7, as claimed: no call of cleanup_directory ever issues a confirmation
\* prompt or waits for the operator, and it removes eligible files without
\* any answer.
C7_DispatcherNeverPrompts ==
    \A c \in Callers :
        LET r == inv[c] IN
        Dispatched(r) => (r.prompts = 0 /\ ~Asking(r))

\* C7, amended: cleanup_directory passes no confirm argument, so the policy
\* it delegates to runs with the default confirm = True: with something
\* eligible it issues one prompt and waits for the operator, and it removes
\* files only after an affirmative answer; with nothing eligible it issues
\* no prompt.
C7_DispatcherUsesDefaultConfirm ==
    \A c \in Callers :
        LET r == inv[c] IN
        (Dispatched(r) /\ Policy(r)) =>
            /\ r.confirm
            /\ r.remove_calls # <<>> => (r.prompts = 1 /\ r.response \in Affirmative)
            /\ (r.directory \in directories /\ Selected(r)) =>
                  r.prompts = (IF SomethingToDo(r) THEN 1 ELSE 0)

C7_Witness ==
    \E c \in Callers :
        LET r == inv[c] IN
        /\ Dispatched(r) /\ r.op = "count" /\ r.pc = "count_input"
        /\ r.prompts = 1 /\ r.response = None /\ Len(r.files_to_delete) = 1

\* C8: when the dispatcher delegates, a days_old that is not None (0
\* included, keep_count given or not) selects the age policy with that
\* threshold; otherwise a keep_count that is not None selects the count
\* policy with that count; otherwise no policy runs, nothing is read or
\* removed, no error is raised and 0 is returned.  The policy chosen stays
\* the only one the call runs.
C8_DispatchRule ==
    [][\A c \in Callers :
        LET r == inv[c]
            q == inv'[c] IN
        /\ (r.pc = "cleanup_directory" /\ q.pc # "cleanup_directory") =>
              /\ q.directory = r.directory /\ Dispatched(q)
              /\ r.args[1] # Absent =>
                    (q.op = "age" /\ q.days_old = r.args[1][1])
              /\ (r.args[1] = Absent /\ r.args[2] # Absent) =>
                    (q.op = "count" /\ q.keep_count = r.args[2][1])
              /\ (r.args[1] = Absent /\ r.args[2] = Absent) =>
                    /\ q.op = "none" /\ q.pc = "returned" /\ q.result = 0
                    /\ q.error = None /\ q.stat_calls = 0 /\ q.prompts = 0
                    /\ Untouched(q) /\ present' = present
        /\ (Dispatched(r) /\ r.pc \notin {"cleanup_directory", "returned", "raised"}) =>
              (q.op = r.op /\ Dispatched(q))
      ]_vars

C8_Witness ==
    \E c \in Callers :
        LET r == inv[c] IN
        /\ Dispatched(r) /\ r.op = "age" /\ r.days_old = 0
        /\ r.pc = "returned" /\ r.result = 1 /\ r.deleted_count = 1

\* C9, as claimed: when an age run follows an age run of the same
\* directory and threshold, its eligible count is not larger than the first
\* run's, its candidates are among the first run's survivors, and no file
\* the first run removed is selected or attempted again.
C9_SecondRunCountNotLarger ==
    \A c \in Callers :
        LET r == inv[c] IN
        (r.op = "age" /\ prev.op = "age") =>
            /\ Range(r.files_to_delete) \subseteq prev.survivors
            /\ Range(r.files_to_delete) \cap prev.removed = {}
            /\ Range(r.remove_calls) \cap prev.removed = {}
            /\ Selected(r) =>
                  Len(r.files_to_delete) <= Cardinality(prev.eligible)

\* C9, amended: the second run's candidates are among the first run's
\* survivors and no file the first run removed is selected or attempted
\* again; every candidate that was already older than the first run's cutoff
\* was a candidate of the first run, so the eligible count among those files
\* is not larger, and the whole count is not larger when the second run's
\* cutoff is the first run's.  A file that crosses the cutoff as the clock
\* advances between the runs is a new candidate.
C9_SecondRunWithinFirst ==
    \A c \in Callers :
        LET r     == inv[c]
            again == {e \in Range(r.files_to_delete) :
                        attr[e].st_mtime < prev.cutoff_timestamp} IN
        (r.op = "age" /\ prev.op = "age") =>
            /\ r.days_old = prev.days_old /\ r.directory = prev.directory
            /\ r.cutoff_timestamp >= prev.cutoff_timestamp
            /\ Range(r.files_to_delete) \subseteq prev.survivors
            /\ Range(r.files_to_delete) \cap prev.removed = {}
            /\ Range(r.remove_calls) \cap prev.removed = {}
            /\ again \subseteq prev.eligible
            /\ Cardinality(again) <= Cardinality(prev.eligible)
            /\ (Selected(r) /\ r.cutoff_timestamp = prev.cutoff_timestamp) =>
                  Len(r.files_to_delete) <= Cardinality(prev.eligible)

C9_Witness ==
    \E c \in Callers :
        LET r == inv[c] IN
        /\ r.op = "age" /\ prev.op = "age" /\ r.pc = "returned"
        /\ Cardinality(prev.eligible) = 2 /\ Cardinality(prev.removed) = 1
        /\ Len(r.files_to_delete) = 1 /\ r.result = 1
        /\ r.cutoff_timestamp = prev.cutoff_timestamp

\* C10, as claimed: an invocation on a directory that exists never ends
\* in an error raised to its caller, also when a file disappears after it
\* was listed because another cleanup runs over the same directory.
C10_NoErrorOnExistingDirectory ==
    \A c \in Callers :
        LET r == inv[c] IN
        (Policy(r) /\ r.directory \in directories) => r.pc # "raised"

\* C11, as claimed: once setup_smtp has returned a server to
\* send_quick_email, quit is called exactly once before it returns or
\* raises, whether send_email succeeded or failed, and a failure of
\* send_email is the error the caller receives; when setup_smtp fails, quit
\* is never called and the setup failure is the error the caller receives.
C11_QuitOnceAndFailurePropagates ==
    (mail.via = "send_quick_email") =>
        /\ mail.quit_calls <= 1
        /\ mail.pc \in {"returned", "raised"} =>
              /\ mail.quit_calls = (IF mail.server THEN 1 ELSE 0)
              /\ mail.pending = SendError =>
                    (mail.pc = "raised" /\ mail.error = SendError)
              /\ ~mail.server =>
                    (mail.pc = "raised" /\ mail.error = SetupError)

\* A credential that was given: neither None nor the empty string.
Given(x) == x \notin {None, ""}

\* C12, as claimed: a connection that setup_smtp returns has seen exactly
\* one login, with the username and password given, when both were given,
\* under either value of use_tls, and no login when either was missing.
C12_LoginWithCredentials ==
    (mail.pc \in {"smtp_return", "returned", "send_email"}) =>
        mail.login_calls =
            (IF Given(mail.username) /\ Given(mail.password)
             THEN << <<mail.username, mail.password>> >> ELSE <<>>)

\* A log file that was given: neither None nor the empty path.
LogFileGiven(log_file) == log_file \notin {<<>>, << <<>> >>}

\* C13: after any sequence of setup_logger calls, a logger carries only
\* handlers installed by the most recent call on its name, at most one
\* console and one file handler; when that call returned they are exactly
\* one console handler if no log file was given, and one console handler
\* plus one file handler on the given file if one was.
C13_HandlersNeverAccumulate ==
    \A n \in LoggerNames :
        LET hs   == logging.handlers[n]
            call == logging.last[n]
        IN  /\ \A i \in 1..Len(hs) : hs[i].of = "latest"
            /\ Cardinality({i \in 1..Len(hs) : hs[i].kind = "console"}) <= 1
            /\ Cardinality({i \in 1..Len(hs) : hs[i].kind = "file"}) <= 1
            /\ call.outcome = "returned" =>
                  hs = IF LogFileGiven(call.log_file)
                       THEN <<[kind |-> "console", file |-> <<>>, of |-> "latest"],
                              [kind |-> "file", file |-> call.log_file[1],
                               of |-> "latest"]>>
                       ELSE <<[kind |-> "console", file |-> <<>>, of |-> "latest"]>>

\* A call without a log file returned on a logger that carried the console
\* and file handler of an earlier call.
C13_Witness ==
    /\ logging.last["app"].outcome = "returned"
    /\ logging.last["app"].removed = 2
    /\ ~LogFileGiven(logging.last["app"].log_file)
    /\ Len(logging.handlers["app"]) = 1

\* What an invocation that has ended returned to its caller as its count.
ReturnedCount(r) == IF r.pc = "returned" THEN r.result ELSE 0
Ended(r)         == r.pc \in {"returned", "raised"}

\* C14: two invocations over the same directory with no locking may both
\* attempt to remove the same file, but no file is removed by both; an
\* attempt on a file the other invocation already removed is not raised to
\* the caller and the loop goes on to its remaining files; and once both
\* have ended the returned counts add up to the number of files gone from
\* the directory.
C14_DuplicateDeleteAbsorbed ==
    /\ inv["a"].removed \cap inv["b"].removed = {}
    /\ Cardinality(inv["a"].removed) + Cardinality(inv["b"].removed)
           = Cardinality(Entries \ present)
    /\ \A c \in Callers :
          LET r == inv[c] IN
          /\ r.remove_calls # <<>> => (r.pc # "raised" /\ r.error = None)
          /\ (r.pc = "returned" /\ r.files_to_delete # <<>>) =>
                (r.remove_calls = r.files_to_delete
                 /\ r.result = Cardinality(r.removed))
    /\ (Ended(inv["a"]) /\ Ended(inv["b"])) =>
          ReturnedCount(inv["a"]) + ReturnedCount(inv["b"])
              = Cardinality(Entries \ present)

\* Both invocations selected both files and attempted both; file 1 went to
\* a, file 2 to b, and each lost the other attempt.
C14_Witness ==
    /\ inv["a"].pc = "returned" /\ inv["b"].pc = "returned"
    /\ Len(inv["a"].remove_calls) = 2 /\ Len(inv["b"].remove_calls) = 2
    /\ inv["a"].removed = {1} /\ inv["b"].removed = {2}
    /\ inv["a"].result = 1 /\ inv["b"].result = 1
    /\ present = {}

\* File e is in the eligible set of invocation r: strictly older than the
\* cutoff under the age policy, and with at least keep_count other listed
\* files no older than it under the count policy.
Eligible(r, e) ==
    IF r.op = "age"
    THEN e \in StrictlyOlder(r)
    ELSE /\ e \in FilesListed(r)
         /\ Cardinality({g \in FilesListed(r) \ {e} :
                            attr[g].st_mtime >= attr[e].st_mtime}) >= r.keep_count

\* C15: no step creates or modifies a file or removes a directory; an
\* entry that leaves the directory is a regular file removed by an
\* invocation in its deletion loop, and it belongs to the eligible set that
\* invocation computed before the loop.
C15_Frame ==
    [][/\ present' \subseteq present
       /\ attr' = attr
       /\ directories' = directories
       /\ \A e \in present \ present' :
             /\ attr[e].kind = "file"
             /\ \E c \in Callers :
                   /\ Removing(inv[c])
                   /\ e \in Range(inv[c].files_to_delete)
                   /\ inv'[c].removed = inv[c].removed \cup {e}
                   /\ Eligible(inv[c], e)]_vars

\* A count run with keep_count 1 removed the older
\* of two files and left the newer one and the directory itself in place.
C15_Witness ==
    \E c \in Callers :
        LET r == inv[c] IN
        /\ r.op = "count" /\ r.pc = "returned" /\ r.keep_count = 1
        /\ r.removed = {1} /\ present = {2}
        /\ attr[1].st_mtime < attr[2].st_mtime
        /\ r.directory \in directories
====
